---- MODULE Spec2Model ----
(***************************************************************************)
(* Model of src/Rational.ts: an exact rational number built on bigint,     *)
(* with a canonicalising factory (create), string/JSON/decimal entry       *)
(* points, arithmetic, comparison, rounding and an interning cache.        *)
(*                                                                         *)
(* Strings are sequences of one-character strings, so that formatting and  *)
(* parsing are computed and not assumed.  Objects carry a reference (ref)  *)
(* so that object identity (===) can be told from structural equality.     *)
(* Every operation takes the static memory m (cache, cacheHits, the next   *)
(* free reference) and returns an outcome [st, r, m]: st is "ok" or the    *)
(* message of the Error thrown.                                            *)
(***************************************************************************)
EXTENDS Integers, Sequences, FiniteSets

\* ------------------------------------------------------------------ bounds
MaxNum == 3
MaxDen == 3
MaxKeep == 2
MaxLit == 1
MaxRefs == 6
MaxSig == 2
MaxRoundNum == 2
MaxRoundDen == 11
MaxList == 2
MaxCache == 4

\* F applied to the value of v, v evaluated once
Bind(v, F(_)) == CHOOSE res \in {F(w) : w \in {v}} : TRUE

\* ------------------------------------------------------- strings (JS text)
DigitChars == <<"0", "1", "2", "3", "4", "5", "6", "7", "8", "9">>

IsDigit(ch) == \E i \in 1..10 : DigitChars[i] = ch

DigitVal(ch) == (CHOOSE i \in 1..10 : DigitChars[i] = ch) - 1

abs(n) == IF n < 0 THEN -n ELSE n

\* the decimal digits of a natural number
NatToString[n \in Nat] ==
  IF n < 10 THEN <<DigitChars[n + 1]>>
  ELSE NatToString[n \div 10] \o <<DigitChars[(n % 10) + 1]>>

\* `${bigint}` / bigint.toString()
toString(n) == IF n < 0 THEN <<"-">> \o NatToString[-n] ELSE NatToString[n]

AllDigits(s) == \A i \in 1..Len(s) : IsDigit(s[i])

\* the natural number written by a string of decimal digits
DigitsToNat(s) ==
  LET value[k \in 0..Len(s)] ==
        IF k = 0 THEN 0 ELSE 10 * value[k - 1] + DigitVal(s[k])
  IN value[Len(s)]

\* index of the first occurrence of ch in s, 0 when absent
IndexOf(s, ch) ==
  IF \E i \in 1..Len(s) : s[i] = ch
  THEN CHOOSE i \in 1..Len(s) : s[i] = ch /\ \A j \in 1..(i - 1) : s[j] # ch
  ELSE 0

\* String.prototype.split(sep): the list of the parts between separators
split(s, sep) ==
  LET cuts == <<0>> \o SelectSeq([i \in 1..Len(s) |-> i], LAMBDA i : s[i] = sep)
                   \o <<Len(s) + 1>>
  IN [k \in 1..(Len(cuts) - 1) |-> SubSeq(s, cuts[k] + 1, cuts[k + 1] - 1)]

\* BigInt(text): "" is 0n, an optional sign and decimal digits, otherwise a
\* SyntaxError; BigInt(undefined) is a TypeError (part absent after split).
BigInt(parts, k) ==
  IF Len(parts) < k THEN [ok |-> FALSE, v |-> 0, err |-> "TypeError"]
  ELSE LET s == parts[k]
           body == IF Len(s) > 0 /\ s[1] \in {"-", "+"} THEN Tail(s) ELSE s
       IN IF Len(s) = 0 THEN [ok |-> TRUE, v |-> 0, err |-> ""]
          ELSE IF Len(body) > 0 /\ AllDigits(body)
               THEN [ok |-> TRUE,
                     v |-> IF s[1] = "-" THEN -DigitsToNat(body) ELSE DigitsToNat(body),
                     err |-> ""]
               ELSE [ok |-> FALSE, v |-> 0, err |-> "SyntaxError"]

\* --------------------------------------------------- ../bigint/bigint
RoundMethod == {"toZero", "awayFromZero", "floor", "ceiling", "nearest"}

gcdOf[a \in Nat, b \in Nat] == IF b = 0 THEN a ELSE gcdOf[b, a % b]

gcd(a, b) == gcdOf[abs(a), abs(b)]

Pow10[k \in Nat] == IF k = 0 THEN 1 ELSE 10 * Pow10[k - 1]

\* integer division of a by b > 0 under a rounding method
divide(a, b, method) ==
  LET q == abs(a) \div b
      rem == abs(a) % b
      sgn == IF a < 0 THEN -1 ELSE 1
      up == IF rem = 0 THEN q ELSE q + 1
  IN CASE method = "toZero" -> sgn * q
       [] method = "awayFromZero" -> sgn * up
       [] method = "floor" -> IF a < 0 THEN -up ELSE q
       [] method = "ceiling" -> IF a < 0 THEN -q ELSE up
       [] OTHER -> IF 2 * rem >= b THEN sgn * (q + 1) ELSE sgn * q

\* power-of-ten scaling: x * 10^k, a rounding division when k < 0
e(x, k, method) == IF k >= 0 THEN x * Pow10[k] ELSE divide(x, Pow10[-k], method)

\* ------------------------------------------------- ../decimal/Decimal
Decimal(significand, exponent) == [significand |-> significand, exponent |-> exponent]

DecimalZERO == Decimal(0, 0)

\* Decimal.fromString: [-]digits[.digits][e[-]digits]
DecimalFromString(s) ==
  LET ie == IndexOf(s, "e")
      mant == IF ie = 0 THEN s ELSE SubSeq(s, 1, ie - 1)
      expo == IF ie = 0 THEN <<"0">> ELSE SubSeq(s, ie + 1, Len(s))
      ex == BigInt(<<expo>>, 1)
      neg == Len(mant) > 0 /\ mant[1] = "-"
      body == IF neg THEN Tail(mant) ELSE mant
      ip == IndexOf(body, ".")
      whole == IF ip = 0 THEN body ELSE SubSeq(body, 1, ip - 1)
      frac == IF ip = 0 THEN <<>> ELSE SubSeq(body, ip + 1, Len(body))
      wellFormed == /\ Len(whole) > 0 /\ AllDigits(whole) /\ AllDigits(frac)
                    /\ (ip # 0 => Len(frac) > 0)
                    /\ ex.ok /\ Len(expo) > 0
      mag == DigitsToNat(whole \o frac)
  IN IF wellFormed
     THEN [ok |-> TRUE,
           d |-> Decimal(IF neg THEN -mag ELSE mag, ex.v - Len(frac))]
     ELSE [ok |-> FALSE, d |-> DecimalZERO]

Zeros(k) == [i \in 1..k |-> "0"]

\* decimal.string: plain notation, the point placed by the exponent
DecimalString(d) ==
  LET digits == NatToString[abs(d.significand)]
      sign == IF d.significand < 0 THEN <<"-">> ELSE <<>>
      padded == Zeros(1 - d.exponent - Len(digits)) \o digits
      cut == Len(padded) + d.exponent
  IN IF d.exponent >= 0 THEN sign \o digits \o Zeros(IF d.significand = 0 THEN 0 ELSE d.exponent)
     ELSE sign \o SubSeq(padded, 1, cut) \o <<".">> \o SubSeq(padded, cut + 1, Len(padded))

\* D(n): the Decimal of a native number (integers here)
D(n) == Decimal(n, 0)

\* Decimal.fromBigInt
DecimalFromBigInt(significand, exponent) == Decimal(significand, exponent)

\* ------------------------------------------------------ Rational objects
Rational(numerator, denominator, ref) ==
  [numerator |-> numerator, denominator |-> denominator, ref |-> ref]

\* public static readonly ZERO / ONE: the first two objects constructed
ZERO == Rational(0, 1, 0)

ONE == Rational(1, 1, 1)

\* placeholder carried by an outcome that threw: no Rational is returned
NoRational == Rational(0, 0, -1)

Ok(r, m) == [st |-> "ok", r |-> r, m |-> m]

Fail(msg, m) == [st |-> msg, r |-> NoRational, m |-> m]

\* ------------------------------------------------ Map (insertion ordered)
MapIndex(map, key) ==
  IF \E i \in 1..Len(map) : map[i].key = key
  THEN CHOOSE i \in 1..Len(map) : map[i].key = key
  ELSE 0

MapSet(map, key, value) ==
  LET i == MapIndex(map, key) IN
  IF i = 0 THEN Append(map, [key |-> key, value |-> value])
  ELSE [map EXCEPT ![i] = [key |-> key, value |-> value]]

MapDelete(map, key) ==
  LET i == MapIndex(map, key) IN
  IF i = 0 THEN map
  ELSE SubSeq(map, 1, i - 1) \o SubSeq(map, i + 1, Len(map))

\* ------------------------------------------------------------ the cache
CacheHighWater == 65536

CacheDrop == 4096

\* static state after class initialisation; live tells whether addToCache
\* is compiled without its leading return
Memory(live) == [cache |-> <<>>, cacheHits |-> <<>>, next |-> 2, live |-> live]

\* the for-of loop over cacheHits: delete and set moves the entry to the end
RECURSIVE Refresh(_, _)
Refresh(cache, hits) ==
  IF Len(hits) = 0 THEN cache
  ELSE Refresh(MapSet(MapDelete(cache, Head(hits).key), Head(hits).key, Head(hits).value),
               Tail(hits))

\* the body of addToCache after the return statement
addToCacheBody(m, rational, key) ==
  IF Len(m.cache) = CacheHighWater
  THEN LET refreshed == Refresh(m.cache, m.cacheHits)
           kept == SubSeq(refreshed, CacheDrop + 1, Len(refreshed))
       IN [m EXCEPT !.cache = MapSet(kept, key, rational), !.cacheHits = <<>>]
  ELSE [m EXCEPT !.cache = MapSet(m.cache, key, rational)]

addToCache(m, rational, key) ==
  IF ~m.live THEN m ELSE addToCacheBody(m, rational, key)

getFromCache(m, key) ==
  LET i == MapIndex(m.cache, key) IN
  IF i # 0
  THEN [hit |-> TRUE, r |-> m.cache[i].value,
        m |-> [m EXCEPT !.cacheHits = MapSet(m.cacheHits, key, m.cache[i].value)]]
  ELSE [hit |-> FALSE, r |-> NoRational, m |-> m]

\* ------------------------------------------------ canonical construction
\* create without the division by the gcd
createUnreduced(m, numerator, denominator) ==
  IF numerator # 0
  THEN IF denominator <= 0 THEN Fail("denominator <= 0", m)
       ELSE Ok(Rational(numerator, denominator, m.next), [m EXCEPT !.next = @ + 1])
  ELSE Ok(ZERO, m)

\* create testing denominator < 0
createStrictlyNegative(m, numerator, denominator) ==
  IF numerator # 0
  THEN IF denominator < 0 THEN Fail("denominator <= 0", m)
       ELSE Bind(gcd(numerator, denominator), LAMBDA gcd2 :
              Ok(Rational(divide(numerator, gcd2, "toZero"),
                          divide(denominator, gcd2, "toZero"), m.next),
                 [m EXCEPT !.next = @ + 1]))
  ELSE Ok(ZERO, m)

\* create constructing a new object for a zero numerator
createFreshZero(m, numerator, denominator) ==
  IF numerator # 0
  THEN IF denominator <= 0 THEN Fail("denominator <= 0", m)
       ELSE Bind(gcd(numerator, denominator), LAMBDA gcd2 :
              Ok(Rational(divide(numerator, gcd2, "toZero"),
                          divide(denominator, gcd2, "toZero"), m.next),
                 [m EXCEPT !.next = @ + 1]))
  ELSE Ok(Rational(0, 1, m.next), [m EXCEPT !.next = @ + 1])

\* create returning the ONE object for the value one
createInternOne(m, numerator, denominator) ==
  IF numerator # 0
  THEN IF denominator <= 0 THEN Fail("denominator <= 0", m)
       ELSE IF numerator = denominator THEN Ok(ONE, m)
       ELSE Bind(gcd(numerator, denominator), LAMBDA gcd2 :
              Ok(Rational(divide(numerator, gcd2, "toZero"),
                          divide(denominator, gcd2, "toZero"), m.next),
                 [m EXCEPT !.next = @ + 1]))
  ELSE Ok(ZERO, m)

create(m, numerator, denominator) ==
  IF numerator # 0
  THEN IF denominator <= 0 THEN Fail("denominator <= 0", m)
       ELSE Bind(toString(numerator) \o <<"/">> \o toString(denominator), LAMBDA key :
            Bind(getFromCache(m, key), LAMBDA got :
              IF got.hit THEN Ok(got.r, got.m)
              ELSE Bind(gcd(numerator, denominator), LAMBDA gcd2 :
                   Bind(Rational(divide(numerator, gcd2, "toZero"),
                                 divide(denominator, gcd2, "toZero"), got.m.next),
                        LAMBDA rational :
                     Ok(rational,
                        addToCache([got.m EXCEPT !.next = @ + 1], rational, key))))))
  ELSE Ok(ZERO, m)

\* ------------------------------------------------------------- getters
string(a) ==
  toString(a.numerator)
    \o (IF a.denominator = 1 THEN <<>> ELSE <<"/">> \o toString(a.denominator))

\* json leaving the denominator 1 out, as string does
jsonBare(a) ==
  toString(a.numerator)
    \o (IF a.denominator = 1 THEN <<>> ELSE <<"/">> \o toString(a.denominator))

json(a) == toString(a.numerator) \o <<"/">> \o toString(a.denominator)

negative(a) == a.numerator < 0

negated(m, a) == create(m, -a.numerator, a.denominator)

absolute(m, a) == IF negative(a) THEN negated(m, a) ELSE Ok(a, m)

\* the getter of the prototype, and the one defined on the ZERO object
inverted(m, a) ==
  IF a.ref = ZERO.ref THEN Fail("inversion of zero", m)
  ELSE create(m, IF negative(a) THEN -a.denominator ELSE a.denominator,
              abs(a.numerator))

\* ----------------------------------------------------------- arithmetic
\* add scaling the operand by its own denominator
addOwnDenominator(m, a, b) ==
  create(m, a.numerator * b.denominator + b.numerator * b.denominator,
         a.denominator * b.denominator)

add(m, a, b) ==
  create(m, a.numerator * b.denominator + b.numerator * a.denominator,
         a.denominator * b.denominator)

sub(m, a, b) ==
  Bind(negated(m, b), LAMBDA n :
    IF n.st # "ok" THEN n ELSE add(n.m, a, n.r))

mul(m, a, b) ==
  create(m, a.numerator * b.numerator, a.denominator * b.denominator)

div(m, a, b) ==
  Bind(inverted(m, b), LAMBDA i :
    IF i.st # "ok" THEN i ELSE mul(i.m, a, i.r))

\* ----------------------------------------------------------- comparison
\* cmp with the answers of the differing-signs case exchanged
cmpSignsExchanged(a, b) ==
  IF negative(a) = negative(b)
  THEN LET l == a.numerator * b.denominator
           r == b.numerator * a.denominator
       IN IF l < r THEN -1 ELSE IF l > r THEN 1 ELSE 0
  ELSE IF negative(a) THEN 1 ELSE -1

cmp(a, b) ==
  IF negative(a) = negative(b)
  THEN LET l == a.numerator * b.denominator
           r == b.numerator * a.denominator
       IN IF l < r THEN -1 ELSE IF l > r THEN 1 ELSE 0
  ELSE IF negative(a) THEN -1 ELSE 1

eq(a, b) == cmp(a, b) = 0

ne(a, b) == cmp(a, b) # 0

lt(a, b) == cmp(a, b) = -1

le(a, b) == cmp(a, b) # 1

gt(a, b) == cmp(a, b) = 1

ge(a, b) == cmp(a, b) # -1

\* --------------------------------------------------------- entry points
fromJson(m, numberString) ==
  Bind(getFromCache(m, numberString), LAMBDA got :
    IF got.hit THEN Ok(got.r, got.m)
    ELSE Bind(split(numberString, "/"), LAMBDA parts :
         Bind(BigInt(parts, 1), LAMBDA numerator :
         Bind(BigInt(parts, 2), LAMBDA denominator :
           IF ~numerator.ok THEN Fail(numerator.err, got.m)
           ELSE IF ~denominator.ok THEN Fail(denominator.err, got.m)
           ELSE Bind(create(got.m, numerator.v, denominator.v), LAMBDA made :
                  IF made.st # "ok" THEN made
                  ELSE Ok(made.r, addToCache(made.m, made.r, numberString)))))))

fromDecimal(m, decimal) ==
  Bind(DecimalString(decimal), LAMBDA key :
  Bind(getFromCache(m, key), LAMBDA got :
    IF got.hit THEN Ok(got.r, got.m)
    ELSE Bind(create(got.m,
                     e(decimal.significand,
                       IF decimal.exponent > 0 THEN decimal.exponent ELSE 0, "toZero"),
                     e(1, IF decimal.exponent < 0 THEN -decimal.exponent ELSE 0, "toZero")),
              LAMBDA made :
           IF made.st # "ok" THEN made
           ELSE Ok(made.r, addToCache(made.m, made.r, key)))))

\* the denominator part of fromString: parsed, converted, divided by
fromStringDivide(first, denominatorString, numberString) ==
  Bind(DecimalFromString(denominatorString), LAMBDA dd :
    IF ~dd.ok THEN Fail("malformed decimal", first.m)
    ELSE Bind(fromDecimal(first.m, dd.d), LAMBDA second :
           IF second.st # "ok" THEN second
           ELSE Bind(div(second.m, first.r, second.r), LAMBDA quotient :
                  IF quotient.st # "ok" THEN quotient
                  ELSE Ok(quotient.r,
                          addToCache(quotient.m, quotient.r, numberString)))))

fromString(m, numberString) ==
  Bind(getFromCache(m, numberString), LAMBDA got :
    IF got.hit THEN Ok(got.r, got.m)
    ELSE Bind(split(numberString, "/"), LAMBDA parts :
         Bind(DecimalFromString(parts[1]), LAMBDA dn :
           IF ~dn.ok THEN Fail("malformed decimal", got.m)
           ELSE Bind(fromDecimal(got.m, dn.d), LAMBDA first :
                  IF first.st # "ok" THEN first
                  ELSE IF Len(parts) >= 2 /\ Len(parts[2]) > 0
                       THEN fromStringDivide(first, parts[2], numberString)
                       ELSE Ok(first.r, addToCache(first.m, first.r, numberString))))))

\* a number key is not the string of its digits: the mark keeps them apart
NumberKey(n) == <<"#">> \o toString(n)

fromNumber(m, n) ==
  Bind(getFromCache(m, NumberKey(n)), LAMBDA got :
    IF got.hit THEN Ok(got.r, got.m)
    ELSE Bind(fromDecimal(got.m, D(n)), LAMBDA made :
           IF made.st # "ok" THEN made
           ELSE Ok(made.r, addToCache(made.m, made.r, NumberKey(n)))))

R(m, s) == fromNumber(m, s)

\* ------------------------------------------------------------ aggregates
RECURSIVE minFold(_, _)
minFold(result, rationals) ==
  IF Len(rationals) = 0 THEN result
  ELSE minFold(IF lt(result, Head(rationals)) THEN result ELSE Head(rationals),
               Tail(rationals))

min(m, rationals) ==
  IF Len(rationals) = 0 THEN Fail("TypeError", m)
  ELSE Ok(minFold(Head(rationals), Tail(rationals)), m)

RECURSIVE maxFold(_, _)
maxFold(result, rationals) ==
  IF Len(rationals) = 0 THEN result
  ELSE maxFold(IF gt(result, Head(rationals)) THEN result ELSE Head(rationals),
               Tail(rationals))

max(m, rationals) ==
  IF Len(rationals) = 0 THEN Fail("TypeError", m)
  ELSE Ok(maxFold(Head(rationals), Tail(rationals)), m)

RECURSIVE sumFold(_, _)
sumFold(result, rationals) ==
  IF Len(rationals) = 0 \/ result.st # "ok" THEN result
  ELSE Bind(add(result.m, result.r, Head(rationals)), LAMBDA next :
         sumFold(next, Tail(rationals)))

sum(m, rationals) == sumFold(Ok(ZERO, m), rationals)

avg(m, rationals) ==
  Bind(sum(m, rationals), LAMBDA total :
    IF total.st # "ok" THEN total
    ELSE Bind(R(total.m, Len(rationals)), LAMBDA count :
           IF count.st # "ok" THEN count
           ELSE div(count.m, total.r, count.r)))

\* Array.prototype.sort with the comparator cmp (stable)
RECURSIVE insertSorted(_, _)
insertSorted(sorted, a) ==
  IF Len(sorted) = 0 THEN <<a>>
  ELSE IF cmp(sorted[Len(sorted)], a) <= 0 THEN Append(sorted, a)
  ELSE Append(insertSorted(SubSeq(sorted, 1, Len(sorted) - 1), a), sorted[Len(sorted)])

RECURSIVE sort(_)
sort(rationals) ==
  IF Len(rationals) = 0 THEN <<>>
  ELSE insertSorted(sort(SubSeq(rationals, 1, Len(rationals) - 1)),
                    rationals[Len(rationals)])

median(m, rationals) ==
  IF Len(rationals) # 0
  THEN Bind(sort(rationals), LAMBDA sorted :
         LET half == Len(sorted) \div 2 IN
         IF Len(sorted) % 2 = 1 THEN Ok(sorted[half + 1], m)
         ELSE avg(m, <<sorted[half], sorted[half + 1]>>))
  ELSE Fail("empty arguments list", m)

\* -------------------------------------------------------------- rounding
roundByRational(m, a, rational, method) ==
  Bind(div(m, a, rational), LAMBDA division :
    IF division.st # "ok" THEN division
    ELSE Bind(divide(division.r.numerator, division.r.denominator, method),
              LAMBDA numerator2 :
           create(division.m, rational.numerator * numerator2, rational.denominator)))

roundToSignificants(a, significantsLength, method) ==
  IF a.ref = ZERO.ref THEN DecimalZERO
  ELSE LET denominatorLength == Len(toString(a.denominator))
           extension == significantsLength + denominatorLength
           extendedNumerator == e(a.numerator, extension, "toZero")
       IN Bind(divide(extendedNumerator, a.denominator, method), LAMBDA quot :
            LET divLength == Len(toString(quot)) - (IF quot < 0 THEN 1 ELSE 0)
                digitsSurplus == divLength - significantsLength
                significants == e(quot, -digitsSurplus, method)
                exponent == digitsSurplus - extension
            IN DecimalFromBigInt(significants, exponent))

\* ---------------------------------------------------------------- state
\* x, y, z: Rationals held by the caller; mem: the static state of the
\* class as compiled; out: the last call, its operands and its outcome.
\* xL, yL, memL, outL: the same caller run against the class compiled with
\* addToCache inserting (its leading return removed).
VARIABLES x, y, z, mem, out, xL, yL, memL, outL

vars == <<x, y, z, mem, out, xL, yL, memL, outL>>

NoRel ==
  [cmp |-> 0, rev |-> 0, eq |-> FALSE, ne |-> FALSE, lt |-> FALSE, le |-> FALSE,
   gt |-> FALSE, ge |-> FALSE]

Outcome(op, o, a, b) ==
  [op |-> op, st |-> o.st, r |-> o.r, a |-> a, b |-> b, arg |-> <<>>,
   list |-> <<>>, n |-> 0, method |-> "toZero", dec |-> DecimalZERO,
   r2 |-> NoRational, rel |-> NoRel]

NoCall == Outcome("none", Ok(NoRational, Memory(FALSE)), NoRational, NoRational)

\* inputs of the entry points
NumeralStrs ==
  {toString(n) : n \in -MaxLit..MaxLit} \cup {<<>>, <<"0", ".", "5">>}

InputStrs ==
  NumeralStrs \cup {p \o <<"/">> \o q : p \in NumeralStrs, q \in NumeralStrs}

Decimals == {Decimal(s, ex) : s \in -MaxLit..MaxLit, ex \in -1..1}

Numbers == -MaxLit..MaxLit

Lists(S) == UNION {[1..k -> S] : k \in 0..MaxList}

Small(r) == abs(r.numerator) <= MaxKeep /\ r.denominator <= MaxKeep

Init ==
  /\ x = ZERO /\ y = ONE /\ z = ZERO
  /\ mem = Memory(FALSE)
  /\ out = NoCall
  /\ xL = ZERO /\ yL = ONE
  /\ memL = Memory(TRUE)
  /\ outL = NoCall

\* the caller is done with the previous call
Idle == out.op = "none"

\* a call of the class as compiled, made once the caller is done with the
\* previous one: the outcome is recorded, the static state is the one the
\* call left (also when it threw)
Call(rec, o) ==
  /\ o.m.next <= MaxRefs
  /\ out' = rec
  /\ mem' = o.m
  /\ UNCHANGED <<x, y, z, xL, yL, memL, outL>>

FromJson ==
  /\ Idle
  /\ \E s \in InputStrs :
       \E o \in {fromJson(mem, s)} :
       Call([Outcome("fromJson", o, NoRational, NoRational) EXCEPT !.arg = s], o)

FromString ==
  /\ Idle
  /\ \E s \in InputStrs :
       \E o \in {fromString(mem, s)} :
       Call([Outcome("fromString", o, NoRational, NoRational) EXCEPT !.arg = s], o)

FromDecimal ==
  /\ Idle
  /\ \E d \in Decimals :
       \E o \in {fromDecimal(mem, d)} :
       Call([Outcome("fromDecimal", o, NoRational, NoRational) EXCEPT !.dec = d], o)

FromNumber ==
  /\ Idle
  /\ \E n \in Numbers :
       \E o \in {fromNumber(mem, n)} :
       Call([Outcome("fromNumber", o, NoRational, NoRational) EXCEPT !.n = n], o)

Add ==
  /\ Idle
  /\ \E o \in {add(mem, x, y)} : Call(Outcome("add", o, x, y), o)

Sub ==
  /\ Idle
  /\ \E o \in {sub(mem, x, y)} : Call(Outcome("sub", o, x, y), o)

Mul ==
  /\ Idle
  /\ \E o \in {mul(mem, x, y)} : Call(Outcome("mul", o, x, y), o)

Div ==
  /\ Idle
  /\ \E o \in {div(mem, x, y)} : Call(Outcome("div", o, x, y), o)

Negated ==
  /\ Idle
  /\ \E o \in {negated(mem, x)} : Call(Outcome("negated", o, x, NoRational), o)

Abs ==
  /\ Idle
  /\ \E o \in {absolute(mem, x)} : Call(Outcome("abs", o, x, NoRational), o)

Inverted ==
  /\ Idle
  /\ \E o \in {inverted(mem, x)} : Call(Outcome("inverted", o, x, NoRational), o)

RoundByRational ==
  /\ Idle
  /\ \E method \in RoundMethod :
       \E o \in {roundByRational(mem, x, y, method)} :
       Call([Outcome("roundByRational", o, x, y) EXCEPT !.method = method], o)

Min ==
  /\ Idle
  /\ \E l \in Lists({x, y}) :
       \E o \in {min(mem, l)} :
       Call([Outcome("min", o, NoRational, NoRational) EXCEPT !.list = l], o)

Max ==
  /\ Idle
  /\ \E l \in Lists({x, y}) :
       \E o \in {max(mem, l)} :
       Call([Outcome("max", o, NoRational, NoRational) EXCEPT !.list = l], o)

Sum ==
  /\ Idle
  /\ \E l \in Lists({x, y}) :
       \E o \in {sum(mem, l)} :
       Call([Outcome("sum", o, NoRational, NoRational) EXCEPT !.list = l], o)

Avg ==
  /\ Idle
  /\ \E l \in Lists({x, y}) :
       \E o \in {avg(mem, l)} :
       Call([Outcome("avg", o, NoRational, NoRational) EXCEPT !.list = l], o)

Median ==
  /\ Idle
  /\ \E l \in Lists({x, y}) :
       \E o \in {median(mem, l)} :
       Call([Outcome("median", o, NoRational, NoRational) EXCEPT !.list = l], o)

\* the caller keeps the Rational the last call returned
Keep ==
  /\ out.st = "ok" /\ out.op # "none" /\ out.r # NoRational
  /\ Small(out.r)
  /\ x' = out.r
  /\ y' = x
  /\ out' = NoCall
  /\ UNCHANGED <<z, mem, xL, yL, memL, outL>>

\* the caller drops the outcome (a value or an exception)
Drop ==
  /\ out.op # "none"
  /\ out' = NoCall
  /\ UNCHANGED <<x, y, z, mem, xL, yL, memL, outL>>

Next ==
  \/ FromJson \/ FromString \/ FromDecimal \/ FromNumber
  \/ Add \/ Sub \/ Mul \/ Div
  \/ Negated \/ Abs \/ Inverted
  \/ RoundByRational
  \/ Min \/ Max \/ Sum \/ Avg \/ Median
  \/ Keep \/ Drop

Spec == Init /\ [][Next]_vars

\* ------------------------------------------- the operations on given inputs
\* Specification of the value operations: x, y, z are any canonical
\* Rationals within the bounds, each operation is applied once to them.
FreshOf(ref) ==
  {Rational(n, d, ref) : n \in (-MaxNum..MaxNum) \ {0}, d \in 1..MaxDen}

Reduced(r) == \A k \in 2..r.denominator : r.numerator % k # 0 \/ r.denominator % k # 0

Values(ref) == {ZERO, ONE} \cup {r \in FreshOf(ref) : Reduced(r)}

InitPure ==
  /\ x \in Values(2) /\ y \in Values(3) /\ z \in Values(4)
  /\ mem = [Memory(FALSE) EXCEPT !.next = 5]
  /\ out = NoCall
  /\ xL = ZERO /\ yL = ONE
  /\ memL = Memory(TRUE)
  /\ outL = NoCall

Apply(rec, o) ==
  /\ out' = rec
  /\ mem' = o.m
  /\ UNCHANGED <<x, y, z, xL, yL, memL, outL>>

\* o2 run after o1, keeping the first failure
Both(o1, o2) == IF o1.st # "ok" THEN o1 ELSE o2

RoundTripJson ==
  /\ Idle
  /\ \E o \in {fromJson(mem, json(x))} :
     Apply([Outcome("fromJson(json)", o, x, NoRational) EXCEPT !.arg = json(x)], o)

RoundTripString ==
  /\ Idle
  /\ \E o \in {fromString(mem, string(x))} :
     Apply([Outcome("fromString(string)", o, x, NoRational) EXCEPT !.arg = string(x)], o)

AddCommutes ==
  /\ Idle
  /\ \E l \in {add(mem, x, y)} : \E r \in {add(l.m, y, x)} :
       Apply([Outcome("add.commutes", Both(l, r), x, y) EXCEPT !.r = l.r, !.r2 = r.r], r)

MulCommutes ==
  /\ Idle
  /\ \E l \in {mul(mem, x, y)} : \E r \in {mul(l.m, y, x)} :
       Apply([Outcome("mul.commutes", Both(l, r), x, y) EXCEPT !.r = l.r, !.r2 = r.r], r)

AddAssociates ==
  /\ Idle
  /\ \E xy \in {add(mem, x, y)} : \E l \in {add(xy.m, xy.r, z)} :
     \E yz \in {add(l.m, y, z)} : \E r \in {add(yz.m, x, yz.r)} :
       Apply([Outcome("add.associates", Both(xy, Both(l, Both(yz, r))), x, y)
                EXCEPT !.r = l.r, !.r2 = r.r], r)

MulAssociates ==
  /\ Idle
  /\ \E xy \in {mul(mem, x, y)} : \E l \in {mul(xy.m, xy.r, z)} :
     \E yz \in {mul(l.m, y, z)} : \E r \in {mul(yz.m, x, yz.r)} :
       Apply([Outcome("mul.associates", Both(xy, Both(l, Both(yz, r))), x, y)
                EXCEPT !.r = l.r, !.r2 = r.r], r)

SubSelf ==
  /\ Idle
  /\ \E o \in {sub(mem, x, x)} : Apply(Outcome("sub.self", o, x, x), o)

DivSelf ==
  /\ Idle
  /\ \E o \in {div(mem, x, x)} : Apply(Outcome("div.self", o, x, x), o)

MulInverted ==
  /\ Idle
  /\ \E i \in {inverted(mem, x)} :
     \E o \in {IF i.st # "ok" THEN i ELSE mul(i.m, x, i.r)} :
       Apply(Outcome("mul.inverted", o, x, x), o)

Relations(a, b) ==
  [cmp |-> cmp(a, b), rev |-> cmp(b, a), eq |-> eq(a, b), ne |-> ne(a, b),
   lt |-> lt(a, b), le |-> le(a, b), gt |-> gt(a, b), ge |-> ge(a, b)]

Compare ==
  /\ Idle
  /\ Apply([Outcome("cmp", Ok(NoRational, mem), x, y) EXCEPT !.rel = Relations(x, y)],
           Ok(NoRational, mem))

\* the same value parsed from its display string and from an unreduced one
CompareParsed ==
  /\ Idle
  /\ \E k \in 1..MaxDen :
     \E s \in {toString(k * x.numerator) \o <<"/">> \o toString(k * x.denominator)} :
     \E p \in {fromString(mem, string(x))} : \E q \in {fromString(p.m, s)} :
       Apply([Outcome("cmp.parsed", Both(p, q), p.r, q.r)
                EXCEPT !.arg = s, !.rel = Relations(p.r, q.r)], q)

RoundToSignificants ==
  /\ Idle
  /\ \E n \in 1..MaxSig, method \in RoundMethod :
       Apply([Outcome("roundToSignificants", Ok(NoRational, mem), x, NoRational)
                EXCEPT !.n = n, !.method = method,
                       !.dec = roundToSignificants(x, n, method)],
             Ok(NoRational, mem))

NextPure ==
  \/ RoundTripJson \/ RoundTripString
  \/ AddCommutes \/ MulCommutes \/ AddAssociates \/ MulAssociates
  \/ SubSelf \/ DivSelf \/ MulInverted
  \/ Compare \/ CompareParsed

SpecPure == InitPure /\ [][NextPure]_vars

\* ------------------------------------------------ rounding on given inputs
\* Specification of the conversion to a Decimal: x is any canonical
\* Rational of the rounding bounds, converted once.
RoundValues ==
  {ZERO} \cup {r \in {Rational(n, d, 2) : n \in (-MaxRoundNum..MaxRoundNum) \ {0},
                                         d \in 1..MaxRoundDen} : Reduced(r)}

InitRound ==
  /\ x \in RoundValues /\ y = ONE /\ z = ZERO
  /\ mem = [Memory(FALSE) EXCEPT !.next = 3]
  /\ out = NoCall
  /\ xL = ZERO /\ yL = ONE
  /\ memL = Memory(TRUE)
  /\ outL = NoCall

NextRound == RoundToSignificants

SpecRound == InitRound /\ [][NextRound]_vars

\* ------------------------------------------------ the two compilations
\* Specification of the caller run in step against the class as compiled
\* (mem, addToCache returns at once) and against the class with the cache
\* populated (memL).
\* inputs of the twin run: one numerator, the denominators a caller may write
TwinStrs ==
  {<<"1">>} \cup {<<"1", "/">> \o q : q \in {<<>>, <<"1">>, <<"-", "1">>, <<"2">>}}

TwinDecimals == {Decimal(1, 0), Decimal(5, -1)}

TwinNumbers == {1}

TwinCall(rec, o, recL, oL) ==
  /\ o.m.next <= MaxRefs
  /\ Len(oL.m.cache) <= MaxCache
  /\ out' = rec
  /\ mem' = o.m
  /\ outL' = recL
  /\ memL' = oL.m
  /\ UNCHANGED <<x, y, z, xL, yL>>

TwinFromJson ==
  /\ Idle
  /\ \E s \in TwinStrs :
       \E o \in {fromJson(mem, s)} : \E oL \in {fromJson(memL, s)} :
         TwinCall([Outcome("fromJson", o, NoRational, NoRational) EXCEPT !.arg = s], o,
                  [Outcome("fromJson", oL, NoRational, NoRational) EXCEPT !.arg = s], oL)

TwinFromString ==
  /\ Idle
  /\ \E s \in TwinStrs :
       \E o \in {fromString(mem, s)} : \E oL \in {fromString(memL, s)} :
         TwinCall([Outcome("fromString", o, NoRational, NoRational) EXCEPT !.arg = s], o,
                  [Outcome("fromString", oL, NoRational, NoRational) EXCEPT !.arg = s], oL)

TwinFromDecimal ==
  /\ Idle
  /\ \E d \in TwinDecimals :
       \E o \in {fromDecimal(mem, d)} : \E oL \in {fromDecimal(memL, d)} :
         TwinCall([Outcome("fromDecimal", o, NoRational, NoRational) EXCEPT !.dec = d], o,
                  [Outcome("fromDecimal", oL, NoRational, NoRational) EXCEPT !.dec = d], oL)

TwinFromNumber ==
  /\ Idle
  /\ \E n \in TwinNumbers :
       \E o \in {fromNumber(mem, n)} : \E oL \in {fromNumber(memL, n)} :
         TwinCall([Outcome("fromNumber", o, NoRational, NoRational) EXCEPT !.n = n], o,
                  [Outcome("fromNumber", oL, NoRational, NoRational) EXCEPT !.n = n], oL)

TwinAdd ==
  /\ Idle
  /\ \E o \in {add(mem, x, y)} : \E oL \in {add(memL, xL, yL)} :
       TwinCall(Outcome("add", o, x, y), o, Outcome("add", oL, xL, yL), oL)

TwinMul ==
  /\ Idle
  /\ \E o \in {mul(mem, x, y)} : \E oL \in {mul(memL, xL, yL)} :
       TwinCall(Outcome("mul", o, x, y), o, Outcome("mul", oL, xL, yL), oL)

TwinDiv ==
  /\ Idle
  /\ \E o \in {div(mem, x, y)} : \E oL \in {div(memL, xL, yL)} :
       TwinCall(Outcome("div", o, x, y), o, Outcome("div", oL, xL, yL), oL)

TwinKeep ==
  /\ out.op # "none"
  /\ out.st = "ok" /\ outL.st = "ok"
  /\ Small(out.r) /\ Small(outL.r)
  /\ x' = out.r /\ y' = x
  /\ xL' = outL.r /\ yL' = xL
  /\ out' = NoCall /\ outL' = NoCall
  /\ UNCHANGED <<z, mem, memL>>

TwinDrop ==
  /\ out.op # "none"
  /\ out' = NoCall /\ outL' = NoCall
  /\ UNCHANGED <<x, y, z, mem, xL, yL, memL>>

NextTwin ==
  \/ TwinFromJson \/ TwinFromString \/ TwinFromDecimal \/ TwinFromNumber
  \/ TwinAdd \/ TwinMul \/ TwinDiv
  \/ TwinKeep \/ TwinDrop

SpecTwin == Init /\ [][NextTwin]_vars

\* --------------------------------------------------------------- claims
SameValue(p, q) == p.numerator = q.numerator /\ p.denominator = q.denominator

Coprime(n, d) == \A k \in 2..d : n % k # 0 \/ d % k # 0

Canonical(r) ==
  /\ r.denominator >= 1
  /\ Coprime(abs(r.numerator), r.denominator)
  /\ (r.numerator = 0 => r.denominator = 1)

\* the Rationals the caller holds or has just been returned
Held == {x, y} \cup (IF out.st = "ok" /\ out.r # NoRational THEN {out.r} ELSE {})

JsonText(n, d) == toString(n) \o <<"/">> \o toString(d)

\* C1: every Rational returned by a public operation, after any sequence of
\* them, has denominator >= 1, numerator and denominator coprime, and a
\* zero value is 0/1.
C1_CanonicalForm == \A r \in Held : Canonical(r)

\* C1 witness: an addition whose raw denominator had to be reduced.
C1_Witness ==
  /\ out.op = "add" /\ out.st = "ok"
  /\ out.r.denominator < out.a.denominator * out.b.denominator

\* C2: for every canonical x, fromJson(x.json) and fromString(x.string)
\* return a Rational with the numerator and denominator of x.
C2_RoundTrip ==
  out.op \in {"fromJson(json)", "fromString(string)"}
    => out.st = "ok" /\ SameValue(out.r, out.a)

\* C2 witness: a negative fraction went through its display string.
C2_Witness ==
  /\ out.op = "fromString(string)" /\ out.st = "ok"
  /\ out.a.numerator < 0 /\ out.a.denominator > 1

\* C3: add and mul are commutative and associative, a.sub(a) is ZERO, and
\* for a # ZERO a.div(a) and a.mul(a.inverted) are ONE (by value).
C3_AlgebraicLaws ==
  /\ out.op \in {"add.commutes", "mul.commutes", "add.associates", "mul.associates"}
       => out.st = "ok" /\ SameValue(out.r, out.r2)
  /\ out.op = "sub.self" => out.st = "ok" /\ SameValue(out.r, ZERO)
  /\ out.op \in {"div.self", "mul.inverted"} /\ out.a.numerator # 0
       => out.st = "ok" /\ SameValue(out.r, ONE)

\* C3 witness: a negative fraction divided by itself.
C3_Witness ==
  /\ out.op = "div.self" /\ out.st = "ok"
  /\ out.a.numerator < 0 /\ out.a.denominator > 1

\* C4 as stated: fromJson("n/d") fails with 'denominator <= 0' for every
\* integer n, zero included, and every d <= 0.
C4_Original ==
  \A n \in -MaxLit..MaxLit, d \in -MaxLit..0 :
    out.op = "fromJson" /\ out.arg = JsonText(n, d)
      => out.st = "denominator <= 0" /\ out.r = NoRational

\* C4 amended: fromJson("n/d") with d <= 0 fails with 'denominator <= 0' and
\* returns no Rational for every n # 0; for n = 0 it returns the ZERO object.
C4_Amended ==
  \A n \in -MaxLit..MaxLit, d \in -MaxLit..0 :
    out.op = "fromJson" /\ out.arg = JsonText(n, d)
      => IF n = 0 THEN out.st = "ok" /\ out.r = ZERO
         ELSE out.st = "denominator <= 0" /\ out.r = NoRational

\* C4 witness: a non-zero numerator over the denominator 0 was rejected.
C4_Witness ==
  /\ out.op = "fromJson" /\ out.arg = JsonText(1, 0)
  /\ out.st = "denominator <= 0"

\* C5: every zero-valued Rational is the ZERO object, and inverting it, or
\* dividing anything by it (directly, by roundByRational, by avg of no
\* values, by fromString("n/0")), fails with 'inversion of zero'.
C5_InversionOfZero ==
  /\ \A r \in Held : r.numerator = 0 => r = ZERO
  /\ out.op = "inverted" /\ out.a.numerator = 0
       => out.st = "inversion of zero" /\ out.r = NoRational
  /\ out.op \in {"div", "roundByRational"} /\ out.b.numerator = 0
       => out.st = "inversion of zero" /\ out.r = NoRational
  /\ out.op = "avg" /\ out.list = <<>>
       => out.st = "inversion of zero" /\ out.r = NoRational
  /\ \A n \in -MaxLit..MaxLit :
       out.op = "fromString" /\ out.arg = JsonText(n, 0)
         => out.st = "inversion of zero" /\ out.r = NoRational

\* C5 witness: a zero that an earlier call returned was divided by zero.
C5_Witness ==
  /\ out.op = "div" /\ out.st = "inversion of zero"
  /\ out.a.numerator = 0 /\ out.b.numerator = 0 /\ mem.next > 2

\* the order of the values, denominators being positive
Order(a, b) ==
  IF a.numerator * b.denominator < b.numerator * a.denominator THEN -1
  ELSE IF a.numerator * b.denominator = b.numerator * a.denominator THEN 0
  ELSE 1

\* C6: a.cmp(b) is -1, 0 or 1 as the value of a is below, equal to or above
\* that of b, a.cmp(b) = -b.cmp(a), eq/ne/lt/le/gt/ge agree with it, and the
\* same value parsed from two representations compares eq.
C6_CmpExactOrder ==
  /\ out.op = "cmp" =>
       /\ out.rel.cmp = Order(out.a, out.b)
       /\ out.rel.cmp = -out.rel.rev
       /\ out.rel.eq = (Order(out.a, out.b) = 0)
       /\ out.rel.ne = (Order(out.a, out.b) # 0)
       /\ out.rel.lt = (Order(out.a, out.b) < 0)
       /\ out.rel.le = (Order(out.a, out.b) <= 0)
       /\ out.rel.gt = (Order(out.a, out.b) > 0)
       /\ out.rel.ge = (Order(out.a, out.b) >= 0)
  /\ out.op = "cmp.parsed" => out.st = "ok" /\ out.rel.eq /\ out.rel.cmp = 0

\* C6 witness: a negative value compared with zero.
C6_Witness ==
  /\ out.op = "cmp" /\ out.a.numerator < 0 /\ out.b.numerator = 0
  /\ out.rel.cmp = -1

\* C7 as stated: roundToSignificants(n, method) returns a Decimal whose
\* significand has exactly n digits for every non-zero Rational and every
\* rounding method, and Decimal.ZERO for ZERO.
C7_Original ==
  out.op = "roundToSignificants"
    => IF out.a.numerator = 0 THEN out.dec = DecimalZERO
       ELSE Len(NatToString[abs(out.dec.significand)]) = out.n

\* the operations whose result is built by create
BuiltByCreate ==
  {"fromJson", "fromString", "fromDecimal", "fromNumber", "add", "sub", "mul",
   "div", "negated", "inverted", "roundByRational", "sum", "avg"}

C9_Original ==
  out.op \in {"fromJson", "fromString"} /\ out.st = "ok"
    => getFromCache(mem, out.arg).hit /\ getFromCache(mem, out.arg).r = out.r

\* C10 as stated: at every step the class as compiled and the class with
\* the cache populated yield the same outcome: the same numerator and
\* denominator, or the same failure.
C10_Original ==
  outL.op # "none" => outL.st = out.st /\ SameValue(outL.r, out.r)

====
